---- MODULE Spec2Model ----
(***************************************************************************)
(* A model of CSVImporter (src/csv_importer.py): the importer's three      *)
(* fields, import_csv with every exit path, and the three query methods.   *)
(*                                                                         *)
(* Text is a sequence of one-character strings, so that splitting on the   *)
(* delimiter, lower() and strip() are computed and not assumed.  Python    *)
(* values that can stand in the same place (a str, None, a list of str)    *)
(* are records of one shape, tagged by kind.                               *)
(***************************************************************************)
EXTENDS Integers, Sequences, FiniteSets

VARIABLES
    headers,    \* self.headers : PyList of column names, or PyNone
    data,       \* self.data    : sequence of rows (dicts)
    filename,   \* self.filename: PyStr(path) or PyNone
    called,     \* the last method call and its arguments
    ret,        \* what that call returned
    printed,    \* what that call reported on the console / wrote out
    raised,     \* the exception that escaped to the caller, "" when none
    succeeded,  \* history: some import_csv has returned True
    lastGood    \* history: the table parsed by the last import_csv that returned True

vars == <<headers, data, filename, called, ret, printed, raised, succeeded, lastGood>>

(***************************************************************************)
(* Bounds of the model.                                                    *)
(***************************************************************************)
\* longest file text (in characters) of the first-load specification
MaxText == 6
\* largest num_rows handed to display_sample
MaxSample == 2

\* the characters file texts are made of: a letter, a blank, a delimiter and
\* the line break.  import_csv never parses with a comma the sniffer did not
\* return, so a comma in a file would be one more character the sniffer can
\* settle on, as the semicolon is
Alphabet == {"A", " ", ";", "\n"}

\* the delimiter arguments: an explicit one, and the default (which triggers sniffing)
Delimiters == {",", ";"}

\* the default delimiter, which import_csv replaces by what the sniffer returns
Default == ","

Paths == {<<"p">>, <<"q">>}

\* the file texts of the call-sequence specification: an empty file, a header
\* alone, an empty header line before a record, one column with one row, two
\* columns with a short row
SeqTexts ==
    { <<>>,
      <<"A">>,
      <<"\n", "A">>,
      <<"A", "\n", " ", "A">>,
      <<"A", ";", " ", "\n", "A">> }

\* the values filter_data is asked for
FilterValues == {<<"a">>, <<" ", "A">>}

\* a column name that no file of the model has
NoColumn == <<"z">>

(***************************************************************************)
(* Python values.                                                          *)
(***************************************************************************)
PyNone == [kind |-> "None", text |-> <<>>, items |-> <<>>]

PyStr(s) == [kind |-> "str", text |-> s, items |-> <<>>]

PyList(l) == [kind |-> "list", text |-> <<>>, items |-> l]

\* bool(x) of a value that is None, a str or a list
Truthy(v) ==
    CASE v.kind = "None" -> FALSE
      [] v.kind = "str" -> v.text # <<>>
      [] v.kind = "list" -> v.items # <<>>

\* where export_summary writes: the console (None), or a file that can or
\* cannot be written
OutputFiles ==
    {[name |-> PyNone, writable |-> TRUE],
     [name |-> PyStr(<<"o">>), writable |-> TRUE],
     [name |-> PyStr(<<"o">>), writable |-> FALSE]}

(***************************************************************************)
(* str methods.                                                            *)
(***************************************************************************)
LowerChar(c) == IF c = "A" THEN "a" ELSE c

\* str.lower()
Lower(s) == [i \in DOMAIN s |-> LowerChar(s[i])]

IsSpace(c) == c \in {" ", "\n"}

RECURSIVE LStrip(_)
LStrip(s) ==
    IF s # <<>> /\ IsSpace(Head(s)) THEN LStrip(Tail(s)) ELSE s

RECURSIVE RStrip(_)
RStrip(s) ==
    IF s # <<>> /\ IsSpace(s[Len(s)]) THEN RStrip(SubSeq(s, 1, Len(s) - 1)) ELSE s

\* str.strip()
Strip(s) == RStrip(LStrip(s))

(***************************************************************************)
(* The file as the csv reader sees it.                                     *)
(***************************************************************************)
\* the text cut at every occurrence of sep; the pieces, the empty ones too
RECURSIVE Pieces(_, _, _)
Pieces(s, sep, cur) ==
    IF s = <<>> THEN <<cur>>
    ELSE IF Head(s) = sep THEN <<cur>> \o Pieces(Tail(s), sep, <<>>)
    ELSE Pieces(Tail(s), sep, Append(cur, Head(s)))

\* the lines of a file opened with newline='': a final line break ends the
\* last line and starts no new one
FileLines(text) ==
    IF text = <<>> THEN <<>>
    ELSE LET ps == Pieces(text, "\n", <<>>)
         IN  IF ps[Len(ps)] = <<>> THEN SubSeq(ps, 1, Len(ps) - 1) ELSE ps

\* csv.reader on one line: its fields; an empty line is the empty record
Fields(line, delimiter) ==
    IF line = <<>> THEN <<>> ELSE Pieces(line, delimiter, <<>>)

\* every record of the file, in file order
Records(text, delimiter) ==
    LET ls == FileLines(text)
    IN  [i \in DOMAIN ls |-> Fields(ls[i], delimiter)]

(***************************************************************************)
(* csv.DictReader.                                                         *)
(***************************************************************************)
\* one row of DictReader (restkey=None, restval=None): the fields zipped with
\* the fieldnames, a later duplicate name overwriting an earlier one; surplus
\* fields as a list under the key None; every fieldname without a field set
\* to None
DictRow(fieldnames, row) ==
    LET lf == Len(fieldnames)
        lr == Len(row)
        n == IF lf < lr THEN lf ELSE lr
        zipKeys == {PyStr(fieldnames[i]) : i \in 1..n}
        restvalKeys == {PyStr(fieldnames[i]) : i \in (lr + 1)..lf}
        restKeys == IF lf < lr THEN {PyNone} ELSE {}
        LastAt(k) == CHOOSE i \in 1..n :
                        /\ fieldnames[i] = k.text
                        /\ \A j \in (i + 1)..n : fieldnames[j] # k.text
    IN  [k \in zipKeys \cup restvalKeys \cup restKeys |->
            IF k = PyNone THEN PyList(SubSeq(row, lf + 1, lr))
            ELSE IF k \in restvalKeys THEN PyNone
            ELSE PyStr(row[LastAt(k)])]

\* reader.fieldnames: the first record, None when the file has no record
ReadFieldnames(records) ==
    IF records = <<>> THEN PyNone ELSE PyList(records[1])

IsRecord(r) == r # <<>>

\* list(reader) that loses the last record of the file
ReadRowsShort(fieldnames, records) ==
    IF records = <<>> THEN <<>>
    ELSE LET later == SelectSeq(Tail(records), IsRecord)
         IN  [i \in 1..(Len(later) - 1) |-> DictRow(fieldnames.items, later[i])]

\* list(reader): a row for every later record that is not empty, in file order
ReadRows(fieldnames, records) ==
    IF records = <<>> THEN <<>>
    ELSE LET later == SelectSeq(Tail(records), IsRecord)
         IN  [i \in DOMAIN later |-> DictRow(fieldnames.items, later[i])]

(***************************************************************************)
(* The file system and the sniffer, as import_csv meets them.              *)
(***************************************************************************)
\* the characters csvfile.read(1024) asks for
SampleSize == 1024

\* every text of at most n characters
Texts(n) == UNION {[1..k -> Alphabet] : k \in 0..n}

\* what a path can name when import_csv is called: nothing; a file that is
\* gone by the time it is opened; a file that may not be read; a file that
\* opens.  The text of a file without fault is the whole file.  The text of a
\* file with a fault is the lines the reader delivers before it raises: the
\* lines before the record the csv parser rejects (parse), or the lines of the
\* buffers read before the one that cannot be decoded (decode)
Files(texts) ==
    {[kind |-> k, text |-> <<>>, fault |-> "none"] : k \in {"missing", "vanished", "denied"}}
    \cup {[kind |-> "regular", text |-> t, fault |-> f] :
            t \in texts, f \in {"none", "decode", "parse"}}

Sample(text) ==
    SubSeq(text, 1, IF Len(text) < SampleSize THEN Len(text) ELSE SampleSize)

\* how often a character occurs in a line
Count(c, line) == Cardinality({i \in DOMAIN line : line[i] = c})

IsFull(line) == line # <<>>

\* the delimiters csv.Sniffer prefers, in its order
Preferred == <<",", "\t", ";", " ", ":">>

\* csv.Sniffer().sniff(sample).delimiter on a sample of a few short lines: a
\* character that occurs equally often, and at least once, in every
\* non-empty line of the sample; among several the first of the preferred
\* ones, else the most frequent; csv.Error ("undetermined") when there is none
Sniff(sample) ==
    LET ls == SelectSeq(Pieces(sample, "\n", <<>>), IsFull)
        cands == {c \in {sample[i] : i \in DOMAIN sample} \ {"\n"} :
                    \A i \in DOMAIN ls : Count(c, ls[i]) = Count(c, ls[1])}
        pref == {i \in DOMAIN Preferred : Preferred[i] \in cands}
    IN  IF cands = {} THEN "undetermined"
        ELSE IF pref # {} THEN Preferred[CHOOSE i \in pref : \A j \in pref : i <= j]
        ELSE CHOOSE c \in cands : \A d \in cands : Count(d, ls[1]) <= Count(c, ls[1])

(***************************************************************************)
(* CSVImporter.                                                            *)
(***************************************************************************)
Init ==
    /\ headers = PyList(<<>>)
    /\ data = <<>>
    /\ filename = PyNone
    /\ called = [op |-> "__init__"]
    /\ ret = PyNone
    /\ printed = <<>>
    /\ raised = ""
    /\ succeeded = FALSE
    /\ lastGood = [headers |-> PyList(<<>>), data |-> <<>>, filename |-> PyNone]

\* an exit of import_csv through one of its except clauses (or the early
\* return): h is self.headers as the call leaves it
Failed(h, report) ==
    [headers |-> h, data |-> data, filename |-> filename,
     ret |-> FALSE, printed |-> <<[msg |-> report]>>]

FaultReport(fault) ==
    IF fault = "decode" THEN "DecodeError" ELSE "ParseError"

\* the body of import_csv: what it leaves in the three fields, what it
\* returns and what it reports
ImportOutcome(path, file, delimiter, sniffed) ==
    IF file.kind \in {"missing", "vanished"} THEN Failed(headers, "FileNotFound")
    ELSE IF file.kind = "denied" THEN Failed(headers, "PermissionDenied")
    ELSE IF /\ delimiter = Default
            /\ file.fault = "decode"
            /\ FileLines(file.text) = <<>> THEN Failed(headers, "DecodeError")
    ELSE IF delimiter = Default /\ sniffed = "undetermined"
      THEN Failed(headers, "ParseError")
    ELSE
      LET d == IF delimiter = Default THEN sniffed ELSE delimiter
          records == Records(file.text, d)
          fieldnames == ReadFieldnames(records)
          rows == ReadRows(fieldnames, records)
      IN  IF records = <<>> /\ file.fault # "none"
            THEN Failed(headers, FaultReport(file.fault))
          ELSE IF file.fault # "none"
            THEN Failed(fieldnames, FaultReport(file.fault))
          ELSE IF fieldnames = PyNone
            THEN [headers |-> fieldnames, data |-> rows, filename |-> PyStr(path),
                  ret |-> FALSE,
                  printed |-> <<[msg |-> "Imported", rows |-> Len(rows)],
                                [msg |-> "UnexpectedError"]>>]
          ELSE [headers |-> fieldnames, data |-> rows, filename |-> PyStr(path),
                ret |-> TRUE,
                printed |-> <<[msg |-> "Imported", rows |-> Len(rows)],
                              [msg |-> "Columns", columns |-> fieldnames.items]>>]

import_csv(path, file, delimiter, sniffed) ==
    LET o == ImportOutcome(path, file, delimiter, sniffed)
    IN  /\ headers' = o.headers
        /\ data' = o.data
        /\ filename' = o.filename
        /\ ret' = o.ret
        /\ printed' = o.printed
        /\ raised' = ""
        /\ called' = [op |-> "import_csv",
                      args |-> [filename |-> path, delimiter |-> delimiter],
                      file |-> file, sniffed |-> sniffed]
        /\ succeeded' = (succeeded \/ o.ret)
        /\ lastGood' = IF o.ret
                         THEN [headers |-> o.headers, data |-> o.data, filename |-> o.filename]
                         ELSE lastGood

(***************************************************************************)
(* The accessors.                                                          *)
(***************************************************************************)
get_data == data

get_headers == headers

get_row_count == Len(data)

get_column_count == IF Truthy(headers) THEN Len(headers.items) ELSE 0

\* row.get(key, ""), key a str
Get(row, key) ==
    IF PyStr(key) \in DOMAIN row THEN row[PyStr(key)] ELSE PyStr(<<>>)

\* a call that returns nothing, or that an exception leaves
Leaves(op, args, report, exception) ==
    /\ called' = [op |-> op, args |-> args]
    /\ ret' = PyNone
    /\ printed' = report
    /\ raised' = exception
    /\ UNCHANGED <<headers, data, filename, succeeded, lastGood>>

(***************************************************************************)
(* display_sample.                                                         *)
(***************************************************************************)
\* the width of a displayed cell
Width == 15

\* str(v) of a cell
StrOf(v) == IF v.kind = "None" THEN <<"N", "o", "n", "e">> ELSE v.text

\* f"{str(v)[:15]:15}": cut to the width, then filled with blanks up to it
Cell(v) ==
    LET t == StrOf(v)
        cut == SubSeq(t, 1, IF Len(t) < Width THEN Len(t) ELSE Width)
    IN  cut \o [i \in 1..(Width - Len(cut)) |-> " "]

\* self.data[:num_rows], num_rows >= 0
FirstRows(num_rows) ==
    SubSeq(data, 1, IF Len(data) < num_rows THEN Len(data) ELSE num_rows)

\* what display_sample prints below the header line: a line of cells for each
\* of the first rows, then the count of the rows left out, if any
SampleReport(num_rows) ==
    LET first == FirstRows(num_rows)
        lines == [i \in DOMAIN first |->
                    [j \in DOMAIN headers.items |-> Cell(Get(first[i], headers.items[j]))]]
    IN  <<[msg |-> "Sample", filename |-> filename, columns |-> headers.items,
           lines |-> lines]>>
        \o (IF Len(data) > num_rows
              THEN <<[msg |-> "More", rows |-> Len(data) - num_rows]>>
              ELSE <<>>)

display_sample(num_rows) ==
    IF data = <<>> THEN
        Leaves("display_sample", num_rows, <<[msg |-> "NoData"]>>, "")
    ELSE IF headers = PyNone THEN
        Leaves("display_sample", num_rows, <<>>, "TypeError")
    ELSE
        Leaves("display_sample", num_rows, SampleReport(num_rows), "")

(***************************************************************************)
(* filter_data.                                                            *)
(***************************************************************************)
\* the comparison of line 133 can be made: the cell is a str
HasLower(row, column) == Get(row, column).kind = "str"

Matches(row, column, value) ==
    Lower(Get(row, column).text) = Lower(value)

filter_data(column, value) ==
    LET args == [column |-> column, value |-> value]
    IN  IF headers = PyNone THEN
            Leaves("filter_data", args, <<>>, "TypeError")
        ELSE IF \A i \in DOMAIN headers.items : headers.items[i] # column THEN
            /\ called' = [op |-> "filter_data", args |-> args]
            /\ ret' = <<>>
            /\ printed' = <<[msg |-> "UnknownColumn"]>>
            /\ raised' = ""
            /\ UNCHANGED <<headers, data, filename, succeeded, lastGood>>
        ELSE IF \E i \in DOMAIN data : ~HasLower(data[i], column) THEN
            Leaves("filter_data", args, <<>>, "AttributeError")
        ELSE
            LET Keep(row) == Matches(row, column, value)
                filtered == SelectSeq(data, Keep)
            IN  /\ called' = [op |-> "filter_data", args |-> args]
                /\ ret' = filtered
                /\ printed' = <<[msg |-> "Found", rows |-> Len(filtered)]>>
                /\ raised' = ""
                /\ UNCHANGED <<headers, data, filename, succeeded, lastGood>>

(***************************************************************************)
(* export_summary.                                                         *)
(***************************************************************************)
\* the cells of one column, row by row
ColumnValues(header) == [i \in DOMAIN data |-> Get(data[i], header)]

\* v.strip() can be taken: the cell is a str
HasStrip(v) == v.kind = "str"

IsNonEmpty(v) == Strip(v.text) # <<>>

\* the statistics of one column
ColumnStats(header) ==
    LET non_empty == SelectSeq(ColumnValues(header), IsNonEmpty)
    IN  [column |-> header,
         non_empty |-> Len(non_empty),
         unique_values |-> Cardinality({non_empty[i] : i \in DOMAIN non_empty})]

Summary ==
    [source |-> filename,
     rows |-> Len(data),
     columns |-> Len(headers.items),
     names |-> headers.items,
     stats |-> [j \in DOMAIN headers.items |-> ColumnStats(headers.items[j])]]

export_summary(output_file) ==
    IF data = <<>> THEN
        Leaves("export_summary", output_file, <<[msg |-> "NoData"]>>, "")
    ELSE IF headers = PyNone THEN
        Leaves("export_summary", output_file, <<>>, "TypeError")
    ELSE IF \E j \in DOMAIN headers.items, i \in DOMAIN data :
                ~HasStrip(Get(data[i], headers.items[j])) THEN
        Leaves("export_summary", output_file, <<>>, "AttributeError")
    ELSE IF ~Truthy(output_file.name) THEN
        Leaves("export_summary", output_file, <<[msg |-> "Summary", summary |-> Summary]>>, "")
    ELSE IF output_file.writable THEN
        Leaves("export_summary", output_file,
               <<[msg |-> "Exported", summary |-> Summary]>>, "")
    ELSE
        Leaves("export_summary", output_file, <<[msg |-> "WriteError"]>>, "")

(***************************************************************************)
(* The calls a client makes.                                               *)
(***************************************************************************)
\* what the sniffer returns to import_csv.  It runs for the default
\* delimiter, once the file has opened, on the first characters of the file.
\* Where the file has a fault these are not all in its text: the sniffer
\* settles on a character of the first line, or on none
Sniffs(file, delimiter) ==
    IF delimiter # Default \/ file.kind # "regular" THEN {"unused"}
    ELSE IF file.fault = "none" THEN {Sniff(Sample(file.text))}
    ELSE {"undetermined"}
         \cup (IF FileLines(file.text) = <<>> THEN {}
                ELSE {FileLines(file.text)[1][i] : i \in DOMAIN FileLines(file.text)[1]})

\* import_csv on one of the paths, which names one of the files, with a
\* delimiter of the caller's or with the default
Import(paths, files) ==
    \E path \in paths, file \in files, delimiter \in Delimiters :
        \E sniffed \in Sniffs(file, delimiter) :
            import_csv(path, file, delimiter, sniffed)

\* any call of import_csv, whatever was called before
ImportAny == Import(Paths, Files(SeqTexts))

\* the first call on a new importer
ImportFirst ==
    /\ called.op = "__init__"
    /\ Import({<<"p">>}, Files(Texts(MaxText)))

\* the columns a client asks filter_data for: every name among the headers,
\* and one that is none of them
Columns ==
    {NoColumn} \cup (IF headers = PyNone THEN {}
                      ELSE {headers.items[i] : i \in DOMAIN headers.items})

Filter == \E column \in Columns, value \in FilterValues : filter_data(column, value)

Display == \E num_rows \in 0..MaxSample : display_sample(num_rows)

Export == \E output_file \in OutputFiles : export_summary(output_file)

Next == ImportAny \/ Filter \/ Display \/ Export

NextTable == ImportFirst \/ Filter \/ Display \/ Export

Spec == Init /\ [][Next]_vars

SpecTable == Init /\ [][NextTable]_vars

(***************************************************************************)
(* The claims.                                                             *)
(***************************************************************************)
\* the last call was import_csv and it returned True
Imported == called.op = "import_csv" /\ ret = TRUE

\* the delimiter the last import_csv parsed with
UsedDelimiter ==
    IF called.args.delimiter = Default THEN called.sniffed ELSE called.args.delimiter

\* the names among the headers, as dictionary keys
HeaderKeys ==
    IF headers = PyNone THEN {} ELSE {PyStr(headers.items[i]) : i \in DOMAIN headers.items}

\* C1: a load that returns failure leaves headers, rows and sourcePath as
\* they were before the call.
C1_FailedLoadKeepsTable ==
    [][(called'.op = "import_csv" /\ ret' = FALSE)
          => UNCHANGED <<headers, data, filename>>]_vars

\* C2: in every reachable state headers is a sequence, non-empty if and only
\* if some load has returned success; before any successful load
\* getHeaders() is the empty sequence and getColumnCount() is 0.
C2_HeadersIffLoaded ==
    /\ headers.kind = "list"
    /\ (headers.items # <<>>) <=> succeeded
    /\ ~succeeded => (get_headers = PyList(<<>>) /\ get_column_count = 0)

\* C3: after a successful load every row's key set is the set of headers and
\* every cell is a string (the empty string for a missing trailing field; no
\* key for a surplus field).
C3_RowsMatchHeaders ==
    Imported =>
        \A i \in DOMAIN data :
            /\ DOMAIN data[i] = HeaderKeys
            /\ \A k \in DOMAIN data[i] : data[i][k].kind = "str"

\* C4, as claimed: for a file of a header line and K data lines, a load that
\* returns success leaves getRowCount() = K, getColumnCount() = the number of
\* fields of the header line, and the rows are the data lines in file order.
C4_RowPerDataLine ==
    (Imported /\ FileLines(called.file.text)[1] # <<>>) =>
        LET lines == FileLines(called.file.text)
            K == Len(lines) - 1
        IN  /\ get_row_count = K
            /\ get_column_count = Len(Fields(lines[1], UsedDelimiter))
            /\ \A i \in 1..K :
                  data[i] = DictRow(Fields(lines[1], UsedDelimiter),
                                    Fields(lines[i + 1], UsedDelimiter))

\* the data lines (by line number) that are not empty
FullLines(lines) == {i \in 2..Len(lines) : lines[i] # <<>>}

\* C4, amended: for a file of a header line and K data lines of which B are
\* empty, a load that returns success leaves getRowCount() = K - B and
\* getColumnCount() = the number of fields of the header line, and the rows
\* are the non-empty data lines in file order: the n-th row holds, under
\* every header name that does not recur later in the header line, the field
\* that the n-th non-empty data line has at the position of that name.
C4_RowPerFullDataLine ==
    Imported =>
        LET lines == FileLines(called.file.text)
            full == FullLines(lines)
            Rank(i) == Cardinality({j \in full : j <= i})
            h == Fields(lines[1], UsedDelimiter)
        IN  /\ get_row_count = Cardinality(full)
            /\ get_column_count = Len(h)
            /\ \A i \in full :
                  LET f == Fields(lines[i], UsedDelimiter)
                  IN  \A j \in DOMAIN h \cap DOMAIN f :
                          (\A k \in (j + 1)..Len(h) : h[k] # h[j])
                              => data[Rank(i)][PyStr(h[j])] = PyStr(f[j])

\* C4's case: a successful load of a file with an empty data line between
\* two data lines that differ
C4_Witness ==
    /\ Imported
    /\ Len(FileLines(called.file.text)) = 4
    /\ FileLines(called.file.text)[3] = <<>>
    /\ Len(data) = 2
    /\ data[1] # data[2]

\* C5: after any sequence of loads the table (headers, rows, sourcePath) is
\* that of the most recent successful load: a second successful load
\* replaces the first, and nothing else changes the table.
C5_TableIsLastGoodLoad ==
    /\ headers = lastGood.headers
    /\ data = lastGood.data
    /\ filename = lastGood.filename

\* C6: in every reachable state filter(column, value) with a column that is
\* not in headers returns the empty sequence and reports UnknownColumn,
\* without raising.
C6_UnknownColumnReported ==
    (called.op = "filter_data" /\ PyStr(called.args.column) \notin HeaderKeys) =>
        /\ raised = ""
        /\ ret = <<>>
        /\ printed = <<[msg |-> "UnknownColumn"]>>

\* the cell of a row at a column equals the value, both lowercased
SameLowered(row, column, value) ==
    /\ PyStr(column) \in DOMAIN row
    /\ row[PyStr(column)].kind = "str"
    /\ Lower(row[PyStr(column)].text) = Lower(value)

\* C7: on a loaded table, filter(column, value) with a column in headers
\* returns exactly the rows whose cell at the column equals the value after
\* lowercasing both, in the order of rows, and raises nothing.
C7_FilterReturnsMatches ==
    (called.op = "filter_data" /\ succeeded /\ PyStr(called.args.column) \in HeaderKeys) =>
        /\ raised = ""
        /\ LET Same(row) == SameLowered(row, called.args.column, called.args.value)
           IN  ret = SelectSeq(data, Same)

\* the trimmed texts of the cells of a column that are not empty when trimmed
TrimmedValues(column) ==
    {Strip(data[i][PyStr(column)].text) :
        i \in {j \in DOMAIN data :
                    /\ PyStr(column) \in DOMAIN data[j]
                    /\ data[j][PyStr(column)].kind = "str"
                    /\ Strip(data[j][PyStr(column)].text) # <<>>}}

\* the count of the cells of a column that are not empty when trimmed
TrimmedCount(column) ==
    Cardinality({j \in DOMAIN data :
                    /\ PyStr(column) \in DOMAIN data[j]
                    /\ data[j][PyStr(column)].kind = "str"
                    /\ Strip(data[j][PyStr(column)].text) # <<>>})

\* C8: on a loaded table with rows, all of whose cells are strings,
\* summarize (to a destination that can be written) reports the source path,
\* the row count, the column count and, for every column, as non-empty count
\* the number of cells whose trimmed text is not empty and as unique count
\* the number of distinct trimmed values among them.
C8_SummaryCountsTrimmed ==
    (/\ called.op = "export_summary"
     /\ called.args.writable
     /\ succeeded
     /\ data # <<>>
     /\ \A i \in DOMAIN data : \A k \in DOMAIN data[i] : data[i][k].kind = "str") =>
        /\ raised = ""
        /\ printed[1].msg \in {"Summary", "Exported"}
        /\ printed[1].summary.source = filename
        /\ printed[1].summary.rows = Len(data)
        /\ printed[1].summary.columns = Len(headers.items)
        /\ \A j \in DOMAIN headers.items :
              /\ printed[1].summary.stats[j].non_empty = TrimmedCount(headers.items[j])
              /\ printed[1].summary.stats[j].unique_values
                    = Cardinality(TrimmedValues(headers.items[j]))

\* C9: a load with the default comma delimiter of an existing, readable,
\* decodable file with a header line, for which the sniffer cannot determine
\* a delimiter, returns success.
C9_SniffFailureFallsBack ==
    (/\ called.op = "import_csv"
     /\ called.args.delimiter = Default
     /\ called.file.kind = "regular"
     /\ called.file.fault = "none"
     /\ FileLines(called.file.text) # <<>>
     /\ called.sniffed = "undetermined") => ret = TRUE

\* C10: sample and summarize signal NoData exactly when no load has
\* succeeded; once one has, summarize (to a destination that can be written)
\* produces the summary and sample shows the first min(n, rowCount) rows and
\* the count rowCount - n of the rows left out when that is positive.
C10_NoDataIffNeverLoaded ==
    /\ called.op \in {"display_sample", "export_summary"} =>
          ((printed = <<[msg |-> "NoData"]>>) <=> ~succeeded)
    /\ (called.op = "export_summary" /\ called.args.writable /\ succeeded) =>
          (/\ raised = ""
           /\ printed[1].msg \in {"Summary", "Exported"}
           /\ printed[1].summary.rows = Len(data)
           /\ printed[1].summary.names = headers.items)
    /\ (called.op = "display_sample" /\ succeeded) =>
          (/\ raised = ""
           /\ printed[1].msg = "Sample"
           /\ Len(printed[1].lines)
                = (IF called.args < Len(data) THEN called.args ELSE Len(data))
           /\ (Len(data) > called.args) =>
                 (Len(printed) = 2 /\ printed[2].rows = Len(data) - called.args))

====
